---- MODULE Spec2Model ----
(***************************************************************************)
(* Drift detection (scripts/check_model_drift.py, class DriftDetector) and *)
(* fit diagnosis (scripts/evaluate_models.py, class ModelEvaluator).       *)
(*                                                                         *)
(* Numbers.  Python floats are modelled by exact rationals on a grid:      *)
(*   - PSI values, KS p-values: integers in thousandths (0.2 is 200);      *)
(*   - accuracies, f1, r2: integers in hundredths (0.60 is 60);            *)
(*   - quotients (proportions, percentages): records [num, den] compared   *)
(*     by cross-multiplication, den = 0 standing for a division by zero.   *)
(* Optional values are None or Some(v).  A Python dict is a function whose *)
(* DOMAIN is its key set, so a missing key is a missing domain element.    *)
(***************************************************************************)
EXTENDS Integers, FiniteSets, Sequences, TLC

VARIABLES
    storage,         \* the CSV file at reference_data_path: None (no file) or Some(dataset)
    reference_data,  \* DriftDetector.reference_data
    loads,           \* how often load_reference_data has read the file into it
    files,           \* reports/drift: file name -> text, for the files that exist
    now,             \* the wall clock, in seconds
    call,            \* the last operation called, with its arguments
    result,          \* how it ended: the value returned or the exception raised
    previous,        \* history: None, or Some earlier comprehensive_drift_check
                     \* of the session, [call, result] as they were after it
    model_files,     \* the model files in the working directory: a set of names
    predictor,       \* EnhancedMigrainePredictor: top_classification_models,
                     \* top_regression_models, feature_names
    predictions_window  \* DeploymentMonitor.predictions_window

vars == <<storage, reference_data, loads, files, now, call, result, previous,
          model_files, predictor, predictions_window>>

\* the fields of the predictor and of the monitor, for the operations of the others
others == <<model_files, predictor, predictions_window>>

None == [none |-> TRUE]
Some(v) == [some |-> v]

\* dict.get(key, default)
Get(d, key, default) == IF key \in DOMAIN d THEN d[key] ELSE default

EmptyDict == [k \in {} |-> k]

Frac(n, d) == [num |-> n, den |-> d]

\* a > b for quotients with non-negative denominators
FracGT(a, b) == a.num * b.den > b.num * a.den

FracEQ(a, b) == a.num * b.den = b.num * a.den

Abs(n) == IF n < 0 THEN -n ELSE n

(***************************************************************************)
(* Datasets.  A dataset is [rows, columns]; columns maps a column name to  *)
(* the column.  A feature column carries its dtype and, for what the       *)
(* numeric libraries compute from its sample against the reference sample, *)
(* the resulting PSI (thousandths) and KS p-value (thousandths).  The      *)
(* label column carries the number of rows whose label is 1.               *)
(***************************************************************************)
target_col == "migraine_occurrence"

FeatureColumn(dtype, psi, p_value) == [dtype |-> dtype, psi |-> psi, p_value |-> p_value]

LabelColumn(ones) == [dtype |-> "numeric", ones |-> ones]

Dataset(rows, columns) == [rows |-> rows, columns |-> columns]

\* pd.api.types.is_numeric_dtype
is_numeric_dtype(column) == column.dtype = "numeric"

----------------------------------------------------------------------------
(* DriftDetector.calculate_psi: the value computed from the two samples.   *)
calculate_psi(reference, current) == current.psi

ModerateThreshold == 100

DefaultThreshold == 200

FeatureStatusStrict(psi, threshold) ==
    IF psi > threshold THEN "SIGNIFICANT_DRIFT"
    ELSE IF psi >= ModerateThreshold THEN "MODERATE_DRIFT"
    ELSE "NO_DRIFT"

\* detect_feature_drift, "Determine drift status"
FeatureStatus(psi, threshold) ==
    IF psi >= threshold THEN "SIGNIFICANT_DRIFT"
    ELSE IF psi >= ModerateThreshold THEN "MODERATE_DRIFT"
    ELSE "NO_DRIFT"

\* "Get common columns (exclude target)"
common_cols(reference, current_data) ==
    {col \in DOMAIN current_data.columns :
        col \in DOMAIN reference.columns /\ col # target_col}

AnalysedColsAnyDtype(reference, current_data) == common_cols(reference, current_data)

\* the columns the loop does not skip
AnalysedCols(reference, current_data) ==
    {col \in common_cols(reference, current_data) :
        is_numeric_dtype(current_data.columns[col])}

drift_percentageUnguarded(drift_results, drifted_features) ==
    Frac(Cardinality(drifted_features) * 100, Cardinality(DOMAIN drift_results))

\* "len(drifted_features) / len(drift_results) * 100 if drift_results else 0"
drift_percentage(drift_results, drifted_features) ==
    IF DOMAIN drift_results # {}
    THEN Frac(Cardinality(drifted_features) * 100,
              Cardinality(DOMAIN drift_results))
    ELSE Frac(0, 1)

detect_feature_driftCountingModerate(reference, current_data, threshold, t) ==
    LET drift_results ==
            [col \in AnalysedCols(reference, current_data) |->
                LET psi == calculate_psi(reference.columns[col], current_data.columns[col])
                IN  [psi |-> psi, status |-> FeatureStatus(psi, threshold)]]
        drifted_features ==
            {col \in DOMAIN drift_results : drift_results[col].status # "NO_DRIFT"}
        summary ==
            [total_features |-> Cardinality(DOMAIN drift_results),
             drifted_features |-> Cardinality(drifted_features),
             drifted_feature_names |-> drifted_features,
             drift_percentage |-> drift_percentage(drift_results, drifted_features),
             overall_status |->
                IF drifted_features # {} THEN "DRIFT_DETECTED" ELSE "NO_DRIFT"]
    IN  [feature_drift |-> drift_results, summary |-> summary, timestamp |-> t]

\* DriftDetector.detect_feature_drift, after the reference is loaded.
\* (ref_mean, curr_mean, ref_std, curr_std are left out of the verdicts.)
detect_feature_drift(reference, current_data, threshold, t) ==
    LET drift_results ==
            [col \in AnalysedCols(reference, current_data) |->
                LET psi == calculate_psi(reference.columns[col], current_data.columns[col])
                IN  [psi |-> psi, status |-> FeatureStatus(psi, threshold)]]
        drifted_features ==
            {col \in DOMAIN drift_results :
                drift_results[col].status = "SIGNIFICANT_DRIFT"}
        summary ==
            [total_features |-> Cardinality(DOMAIN drift_results),
             drifted_features |-> Cardinality(drifted_features),
             drifted_feature_names |-> drifted_features,
             drift_percentage |-> drift_percentage(drift_results, drifted_features),
             overall_status |->
                IF drifted_features # {} THEN "DRIFT_DETECTED" ELSE "NO_DRIFT"]
    IN  [feature_drift |-> drift_results, summary |-> summary, timestamp |-> t]

DefaultAlpha == 50

detect_statistical_driftInclusive(reference, current_data, alpha, t) ==
    LET drift_results ==
            [col \in AnalysedCols(reference, current_data) |->
                LET p_value == current_data.columns[col].p_value
                IN  [p_value |-> p_value,
                     drift_detected |-> p_value <= alpha,
                     test |-> "Kolmogorov-Smirnov"]]
        drifted_count ==
            Cardinality({col \in DOMAIN drift_results : drift_results[col].drift_detected})
        summary ==
            [total_features |-> Cardinality(DOMAIN drift_results),
             drifted_features |-> drifted_count,
             significance_level |-> alpha]
    IN  [statistical_drift |-> drift_results, summary |-> summary, timestamp |-> t]

\* DriftDetector.detect_statistical_drift, after the reference is loaded.
\* drift_detected is a numpy.bool_ (the comparison of a numpy.float64).
detect_statistical_drift(reference, current_data, alpha, t) ==
    LET drift_results ==
            [col \in AnalysedCols(reference, current_data) |->
                LET p_value == current_data.columns[col].p_value
                IN  [p_value |-> p_value,
                     drift_detected |-> p_value < alpha,
                     test |-> "Kolmogorov-Smirnov"]]
        drifted_count ==
            Cardinality({col \in DOMAIN drift_results : drift_results[col].drift_detected})
        summary ==
            [total_features |-> Cardinality(DOMAIN drift_results),
             drifted_features |-> drifted_count,
             significance_level |-> alpha]
    IN  [statistical_drift |-> drift_results, summary |-> summary, timestamp |-> t]

----------------------------------------------------------------------------
\* Series.value_counts(normalize=True).to_dict() of a 0/1 label column:
\* class -> proportion, for the classes that occur.
value_counts(rows, column) ==
    [class \in {c \in {0, 1} : IF c = 1 THEN column.ones > 0 ELSE column.ones < rows} |->
        IF class = 1 THEN Frac(column.ones, rows) ELSE Frac(rows - column.ones, rows)]

\* abs(ref_dist.get(1, 0) - curr_dist.get(1, 0))
drift_magnitude(ref_dist, curr_dist) ==
    LET r == Get(ref_dist, 1, Frac(0, 1))
        c == Get(curr_dist, 1, Frac(0, 1))
    IN  Frac(Abs(r.num * c.den - c.num * r.den), r.den * c.den)

TargetStatusInclusive(magnitude) ==
    IF ~FracGT(Frac(1, 10), magnitude) THEN "SIGNIFICANT_DRIFT" ELSE "NO_DRIFT"

\* "SIGNIFICANT_DRIFT" if drift_magnitude > 0.1 else "NO_DRIFT"
TargetStatus(magnitude) ==
    IF FracGT(magnitude, Frac(1, 10)) THEN "SIGNIFICANT_DRIFT" ELSE "NO_DRIFT"

\* the guard of the soft failure
TargetMissing(reference, current_data) ==
    \/ target_col \notin DOMAIN current_data.columns
    \/ target_col \notin DOMAIN reference.columns

\* DriftDetector.detect_target_drift, after the reference is loaded
detect_target_drift(reference, current_data, t) ==
    IF TargetMissing(reference, current_data)
    THEN EmptyDict
    ELSE LET ref_dist == value_counts(reference.rows, reference.columns[target_col])
             curr_dist == value_counts(current_data.rows, current_data.columns[target_col])
             magnitude == drift_magnitude(ref_dist, curr_dist)
         IN  [reference_distribution |-> ref_dist,
              current_distribution |-> curr_dist,
              drift_magnitude |-> magnitude,
              status |-> TargetStatus(magnitude),
              timestamp |-> t]

DegradationStatusInclusive(pct) ==
    IF ~FracGT(Frac(10, 1), pct) THEN "SIGNIFICANT_DEGRADATION"
    ELSE IF FracGT(pct, Frac(5, 1)) THEN "MODERATE_DEGRADATION"
    ELSE "NO_DEGRADATION"

\* detect_model_performance_drift, "Determine status"
DegradationStatus(pct) ==
    IF FracGT(pct, Frac(10, 1)) THEN "SIGNIFICANT_DEGRADATION"
    ELSE IF FracGT(pct, Frac(5, 1)) THEN "MODERATE_DEGRADATION"
    ELSE "NO_DEGRADATION"

\* DriftDetector.detect_model_performance_drift.  model.accuracy is what
\* accuracy_score(current_labels, model.predict(current_data)) evaluates to
\* (hundredths); current_f1 is left out.  With baseline_accuracy = 0 the
\* quotient has den = 0: the division raises ZeroDivisionError on Python floats
\* and gives -inf or nan, which compare below every threshold, on numpy floats.
detect_model_performance_drift(model, baseline_accuracy, t) ==
    LET current_accuracy == model.accuracy
        accuracy_drop == baseline_accuracy - current_accuracy
        performance_degradation == Frac(accuracy_drop * 100, baseline_accuracy)
    IN  [baseline_accuracy |-> baseline_accuracy,
         current_accuracy |-> current_accuracy,
         accuracy_drop |-> accuracy_drop,
         performance_degradation_pct |-> performance_degradation,
         status |-> DegradationStatus(performance_degradation),
         timestamp |-> t]

----------------------------------------------------------------------------
get_drift_recommendationSignificantOnly(drift_report) ==
    LET feature ==
            IF drift_report.feature_drift.summary.overall_status = "DRIFT_DETECTED"
            THEN <<"RETRAIN MODEL: Significant feature drift detected">>
            ELSE <<>>
        target ==
            IF Get(drift_report.target_drift, "status", "None") = "SIGNIFICANT_DRIFT"
            THEN <<"INVESTIGATE DATA: Target distribution has shifted significantly">>
            ELSE <<>>
        performance ==
            IF "performance_drift" \in DOMAIN drift_report
            THEN IF drift_report.performance_drift.status = "SIGNIFICANT_DEGRADATION"
                 THEN <<"MODEL RETRAINING REQUIRED: SIGNIFICANT_DEGRADATION">>
                 ELSE <<>>
            ELSE <<>>
        recommendations == feature \o target \o performance
    IN  IF recommendations = <<>>
        THEN <<"NO ACTION REQUIRED: Model is performing well">>
        ELSE recommendations

\* DriftDetector.get_drift_recommendation; the " | ".join of the list is the list
get_drift_recommendation(drift_report) ==
    LET feature ==
            IF drift_report.feature_drift.summary.overall_status = "DRIFT_DETECTED"
            THEN <<"RETRAIN MODEL: Significant feature drift detected">>
            ELSE <<>>
        target ==
            IF Get(drift_report.target_drift, "status", "None") = "SIGNIFICANT_DRIFT"
            THEN <<"INVESTIGATE DATA: Target distribution has shifted significantly">>
            ELSE <<>>
        performance ==
            IF "performance_drift" \in DOMAIN drift_report
            THEN LET status == drift_report.performance_drift.status
                 IN  IF status = "SIGNIFICANT_DEGRADATION"
                     THEN <<"MODEL RETRAINING REQUIRED: SIGNIFICANT_DEGRADATION">>
                     ELSE IF status = "MODERATE_DEGRADATION"
                     THEN <<"MODEL RETRAINING REQUIRED: MODERATE_DEGRADATION">>
                     ELSE <<>>
            ELSE <<>>
        recommendations == feature \o target \o performance
    IN  IF recommendations = <<>>
        THEN <<"NO ACTION REQUIRED: Model is performing well">>
        ELSE recommendations

PerformanceRequestedIgnoringLabels(current_labels, model, baseline_accuracy) ==
    model # None /\ baseline_accuracy # None

\* "if model is not None and current_labels is not None and baseline_accuracy is not None"
PerformanceRequested(current_labels, model, baseline_accuracy) ==
    model # None /\ current_labels # None /\ baseline_accuracy # None

drift_detectedSticky(drift_report) ==
    \/ drift_report.feature_drift.summary.overall_status = "DRIFT_DETECTED"
    \/ Get(drift_report.target_drift, "status", "None") = "SIGNIFICANT_DRIFT"
    \/ files.latest # None

drift_detectedBoth(drift_report) ==
    /\ drift_report.feature_drift.summary.overall_status = "DRIFT_DETECTED"
    /\ Get(drift_report.target_drift, "status", "None") = "SIGNIFICANT_DRIFT"

drift_detectedWithPerformance(drift_report) ==
    \/ drift_report.feature_drift.summary.overall_status = "DRIFT_DETECTED"
    \/ Get(drift_report.target_drift, "status", "None") = "SIGNIFICANT_DRIFT"
    \/ /\ "performance_drift" \in DOMAIN drift_report
       /\ drift_report.performance_drift.status = "SIGNIFICANT_DEGRADATION"

\* comprehensive_drift_check, "Overall assessment"
drift_detected(drift_report) ==
    \/ drift_report.feature_drift.summary.overall_status = "DRIFT_DETECTED"
    \/ Get(drift_report.target_drift, "status", "None") = "SIGNIFICANT_DRIFT"

\* comprehensive_drift_check up to the call of save_drift_report: the report
\* assembled at time t from the loaded reference and the arguments
AssembleReport(reference, current_data, current_labels, model, baseline_accuracy, t) ==
    LET detectors ==
            [timestamp |-> t,
             data_size |-> current_data.rows,
             feature_drift |-> detect_feature_drift(reference, current_data, DefaultThreshold, t),
             statistical_drift |-> detect_statistical_drift(reference, current_data, DefaultAlpha, t),
             target_drift |-> detect_target_drift(reference, current_data, t)]
        drift_report ==
            IF PerformanceRequested(current_labels, model, baseline_accuracy)
            THEN detectors @@
                 ("performance_drift" :>
                    detect_model_performance_drift(model.some, baseline_accuracy.some, t))
            ELSE detectors
    IN  drift_report @@
        ("overall_assessment" :>
            [drift_detected |-> drift_detected(drift_report),
             action_required |-> drift_detected(drift_report),
             recommendation |-> get_drift_recommendation(drift_report)])

----------------------------------------------------------------------------
(***************************************************************************)
(* Persistence.  A JSON text is the sequence of the top-level <<key,       *)
(* value>> entries in the order json.dump writes them (the dict's insertion*)
(* order).  json.dump streams the text to the opened (truncated) file and  *)
(* raises TypeError at the first value that is no JSON type; what was      *)
(* written before stays in the file.                                       *)
(***************************************************************************)
KeyOrder ==
    <<"timestamp", "data_size", "feature_drift", "statistical_drift", "target_drift",
      "performance_drift", "overall_assessment">>

\* the keys of the report in insertion order
ReportKeys(report) == SelectSeq(KeyOrder, LAMBDA k : k \in DOMAIN report)

\* json keys are strings: the integer classes of a distribution become "0", "1"
JsonDistribution(dist) ==
    [k \in {IF c = 1 THEN "1" ELSE "0" : c \in DOMAIN dist} |->
        IF k = "1" THEN dist[1] ELSE dist[0]]

JsonValue(key, value) ==
    IF key = "target_drift" /\ value # EmptyDict
    THEN [value EXCEPT !.reference_distribution = JsonDistribution(@),
                       !.current_distribution = JsonDistribution(@)]
    ELSE value

\* Every value of the report is a str, an int, a float, a bool, a list or a
\* dict of these, except the numpy.bool_ drift_detected of each column's KS
\* verdict, which the json encoder rejects.
Serializable(key, value) ==
    ~(key = "statistical_drift" /\ DOMAIN value.statistical_drift # {})

\* the entries json.dump writes completely, and whether it raises after them
json_dump(report) ==
    LET keys == ReportKeys(report)
        bad == {i \in 1..Len(keys) : ~Serializable(keys[i], report[keys[i]])}
        last == IF bad = {} THEN Len(keys)
                ELSE (CHOOSE i \in bad : \A j \in bad : i <= j) - 1
    IN  [text |-> [i \in 1..last |-> <<keys[i], JsonValue(keys[i], report[keys[i]])>>],
         raised |-> bad # {}]

NoFiles == [stamped |-> EmptyDict, latest |-> None]

save_drift_reportStampedOnly(dir, report, t) ==
    LET dump == json_dump(report)
        json_file == [s \in DOMAIN dir.stamped \cup {t} |->
                        IF s = t THEN dump.text ELSE dir.stamped[s]]
    IN  [files |-> [dir EXCEPT !.stamped = json_file], raised |-> dump.raised]

save_drift_reportLatestFirst(dir, report, t) ==
    LET dump == json_dump(report)
        json_file == [s \in DOMAIN dir.stamped \cup {t} |->
                        IF s = t THEN dump.text ELSE dir.stamped[s]]
    IN  [files |-> [stamped |-> json_file, latest |-> Some(dump.text)],
         raised |-> dump.raised]

\* DriftDetector.save_drift_report at second t: the directory afterwards and
\* whether the call raised
save_drift_report(dir, report, t) ==
    LET dump == json_dump(report)
        json_file == [s \in DOMAIN dir.stamped \cup {t} |->
                        IF s = t THEN dump.text ELSE dir.stamped[s]]
    IN  IF dump.raised
        THEN [files |-> [dir EXCEPT !.stamped = json_file], raised |-> TRUE]
        ELSE [files |-> [stamped |-> json_file, latest |-> Some(dump.text)],
              raised |-> FALSE]

----------------------------------------------------------------------------
(***************************************************************************)
(* Inputs.                                                                 *)
(***************************************************************************)
MaxRows == 5

MaxClock == 1

\* every assignment of one of `variants` to each column of a subset of `names`
ColumnMaps(names, variants) == UNION {[F -> variants] : F \in SUBSET names}

\* datasets of `rows` rows over the feature columns, without and with a label
\* column holding one of `ones` ones
Datasets(rows, names, variants, ones) ==
    {Dataset(rows, cm) : cm \in ColumnMaps(names, variants)}
    \cup {Dataset(rows, cm @@ (target_col :> LabelColumn(k))) :
            cm \in ColumnMaps(names, variants), k \in ones}

ObjectColumn == FeatureColumn("object", 0, 0)

\* a column of the reference: its sample is the one PSI and KS compare against
ReferenceColumn == FeatureColumn("numeric", 0, 1000)

\* the reference files of a monitoring session
SessionStorage ==
    {None,
     Some(Dataset(MaxRows, [col \in {"age"} |-> ReferenceColumn])),
     Some(Dataset(MaxRows, ("age" :> ReferenceColumn) @@ (target_col :> LabelColumn(2))))}

SessionDatasets ==
    Datasets(MaxRows, {"age"}, {FeatureColumn("numeric", 250, 10)}, {2, MaxRows})

\* (current_labels, model, baseline_accuracy) as comprehensive_drift_check gets them
SessionPerformanceArgs ==
    {<<None, None, None>>,
     <<Some("labels"), Some([accuracy |-> 70]), None>>,
     <<None, Some([accuracy |-> 70]), Some(80)>>,
     <<Some("labels"), None, Some(80)>>,
     <<Some("labels"), Some([accuracy |-> 70]), Some(80)>>}

----------------------------------------------------------------------------
(***************************************************************************)
(* Operations.                                                             *)
(***************************************************************************)
NoCall == [op |-> "none"]

Returned(value) == [outcome |-> "returned", value |-> value]

RaisedSwallowed(error) == [outcome |-> "returned", value |-> EmptyDict]

Raised(error) == [outcome |-> "raised", error |-> error]

\* EnhancedMigrainePredictor.__init__
NewPredictor ==
    [top_classification_models |-> <<>>,
     top_regression_models |-> <<>>,
     feature_names |-> None]

\* no model file, a new predictor, a new monitor (deque(maxlen=1000), empty)
InitOthers ==
    /\ model_files = {}
    /\ predictor = NewPredictor
    /\ predictions_window = <<>>

InitWith(storages) ==
    /\ storage \in storages
    /\ reference_data = None      \* DriftDetector.__init__
    /\ loads = 0
    /\ files = NoFiles
    /\ now = 0
    /\ call = NoCall
    /\ result = [outcome |-> "none"]
    /\ previous = None
    /\ InitOthers

\* "if self.reference_data is None: self.load_reference_data()": pd.read_csv
\* raises FileNotFoundError when there is no file, before the assignment
LoadFails == reference_data = None /\ storage = None

LoadedReference == IF reference_data = None THEN storage ELSE reference_data

LoadCountUnguarded == loads + 1

\* the reads of the file so far, after a call that got past the guard "if
\* self.reference_data is None" and the load behind it
LoadCount == IF reference_data = None THEN loads + 1 ELSE loads

\* the clock moves between two calls
Tick ==
    /\ now < MaxClock
    /\ now' = now + 1
    /\ UNCHANGED <<storage, reference_data, loads, files, call, result, previous, others>>

\* DriftDetector.comprehensive_drift_check(current_data, current_labels, model,
\* baseline_accuracy), started at second `now`; save_drift_report reads the
\* clock again at second t_save.  zero_division: whether a division by a zero
\* baseline raises (Python float) or not (numpy float).
ComprehensiveDriftCheck(current_data, current_labels, model, baseline_accuracy, t_save, zero_division) ==
    /\ call' = [op |-> "comprehensive_drift_check",
                current_data |-> current_data,
                current_labels |-> current_labels,
                model |-> model,
                baseline_accuracy |-> baseline_accuracy]
    /\ UNCHANGED storage
    /\ IF LoadFails
       THEN /\ result' = Raised("FileNotFoundError")
            /\ UNCHANGED <<reference_data, loads, files, now>>
       ELSE /\ reference_data' = LoadedReference
            /\ loads' = LoadCount
            /\ IF /\ PerformanceRequested(current_labels, model, baseline_accuracy)
                  /\ baseline_accuracy.some = 0
                  /\ zero_division
               THEN /\ result' = Raised("ZeroDivisionError")
                    /\ UNCHANGED <<files, now>>
               ELSE LET drift_report ==
                            AssembleReport(LoadedReference.some, current_data,
                                           current_labels, model, baseline_accuracy, now)
                        saved == save_drift_report(files, drift_report, t_save)
                    IN  /\ files' = saved.files
                        /\ now' = t_save
                        /\ result' = IF saved.raised
                                     THEN [outcome |-> "raised", error |-> "TypeError",
                                           report |-> drift_report]
                                     ELSE Returned(drift_report)

\* a call of a monitoring session; it starts and saves within one second, and
\* its baseline is positive
SessionCheck ==
    \E current_data \in SessionDatasets, args \in SessionPerformanceArgs :
    \E zero_division \in IF args[3] = Some(0) THEN BOOLEAN ELSE {FALSE} :
        /\ ComprehensiveDriftCheck(current_data, args[1], args[2], args[3],
                                   now, zero_division)
        /\ UNCHANGED <<previous, others>>

\* the status the script's process ends with after the try statement of
\* __main__: the except clause logs the exception and prints the traceback,
\* and the script ends there either way
exit_status(caught) == 0

Exited(caught) == [outcome |-> "exited", status |-> exit_status(caught), caught |-> caught]

\* the script run as a program at second `now`.  Its own new DriftDetector
\* reads the same file the current data is sampled from; enough_rows: whether
\* the file has the 500 rows of the sample (DataFrame.sample raises ValueError
\* otherwise).  The sample stands to the file as the file to itself.
Main ==
    \E enough_rows \in BOOLEAN :
        /\ call' = [op |-> "__main__"]
        /\ UNCHANGED <<storage, reference_data, loads, now, previous, others>>
        /\ IF storage = None
           THEN /\ result' = Exited(Some("FileNotFoundError"))
                /\ UNCHANGED files
           ELSE IF ~enough_rows
           THEN /\ result' = Exited(Some("ValueError"))
                /\ UNCHANGED files
           ELSE IF target_col \notin DOMAIN storage.some.columns
           THEN /\ result' = Exited(Some("KeyError"))
                /\ UNCHANGED files
           ELSE LET current_data == storage.some
                    drift_report == AssembleReport(storage.some, current_data,
                                                   Some("labels"), None, None, now)
                    saved == save_drift_report(files, drift_report, now)
                IN  /\ files' = saved.files
                    /\ result' = Exited(IF saved.raised THEN Some("TypeError") ELSE None)

Init == InitWith(SessionStorage)

Next == SessionCheck \/ Tick \/ Main

Spec == Init /\ [][Next]_vars

----------------------------------------------------------------------------
(***************************************************************************)
(* The detectors called one by one.                                        *)
(***************************************************************************)
Features == {"age", "stress_level"}

PsiValues == {99, 100, 199, 200}

PValues == {49, 50, 1000}

Thresholds == {DefaultThreshold, 50}

\* row counts of the datasets whose label column is varied
RowCounts == {0, 2, MaxRows}

\* reference files: none, one without a label column, one without the second
\* feature, and every label column over RowCounts
DetectStorage ==
    {None,
     Some(Dataset(MaxRows, [col \in Features |-> ReferenceColumn])),
     Some(Dataset(MaxRows, [col \in {"age"} |-> ReferenceColumn]))}
    \cup UNION {{Some(Dataset(rows, [col \in Features |-> ReferenceColumn]
                                     @@ (target_col :> LabelColumn(k)))) :
                    k \in 0..rows} : rows \in RowCounts}

FeatureDatasets ==
    Datasets(MaxRows, Features,
             {ObjectColumn} \cup {FeatureColumn("numeric", psi, 1000) : psi \in PsiValues},
             {1})

StatisticalDatasets ==
    Datasets(MaxRows, Features,
             {ObjectColumn} \cup {FeatureColumn("numeric", 0, p) : p \in PValues},
             {1})

TargetDatasets ==
    UNION {Datasets(rows, {}, {}, 0..rows) : rows \in RowCounts}

Accuracies == {71, 72, 75, 76, 90}

Baselines == {0, 80}

\* the detectors' common start; `value` is what the detector returns once the
\* reference is there
Detect(op, arguments, value) ==
    /\ call' = [op |-> op] @@ arguments
    /\ UNCHANGED <<storage, files, now, previous, others>>
    /\ IF LoadFails
       THEN /\ result' = Raised("FileNotFoundError")
            /\ UNCHANGED <<reference_data, loads>>
       ELSE /\ reference_data' = LoadedReference
            /\ loads' = LoadCount
            /\ result' = Returned(value)

\* DriftDetector.detect_feature_drift(current_data, threshold)
DetectFeatureDrift ==
    \E current_data \in FeatureDatasets, threshold \in Thresholds :
        Detect("detect_feature_drift",
               [current_data |-> current_data, threshold |-> threshold],
               detect_feature_drift(LoadedReference.some, current_data, threshold, now))

\* DriftDetector.detect_statistical_drift(current_data, alpha)
DetectStatisticalDrift ==
    \E current_data \in StatisticalDatasets :
        Detect("detect_statistical_drift",
               [current_data |-> current_data, alpha |-> DefaultAlpha],
               detect_statistical_drift(LoadedReference.some, current_data, DefaultAlpha, now))

\* DriftDetector.detect_target_drift(current_data)
DetectTargetDrift ==
    \E current_data \in TargetDatasets :
        Detect("detect_target_drift",
               [current_data |-> current_data],
               detect_target_drift(LoadedReference.some, current_data, now))

\* DriftDetector.detect_model_performance_drift(model, current_data,
\* current_labels, baseline_accuracy): it does not touch the reference
DetectModelPerformanceDrift ==
    \E accuracy \in Accuracies, baseline_accuracy \in Baselines :
    \E zero_division \in IF baseline_accuracy = 0 THEN BOOLEAN ELSE {FALSE} :
        /\ call' = [op |-> "detect_model_performance_drift",
                    model |-> [accuracy |-> accuracy],
                    baseline_accuracy |-> baseline_accuracy]
        /\ result' = IF zero_division
                     THEN Raised("ZeroDivisionError")
                     ELSE Returned(detect_model_performance_drift(
                                      [accuracy |-> accuracy], baseline_accuracy, now))
        /\ UNCHANGED <<storage, reference_data, loads, files, now, previous, others>>

\* the parts of a drift report that get_drift_recommendation reads
RecommendationReports ==
    LET sections ==
            {[feature_drift |-> [summary |-> [overall_status |-> overall_status]],
              target_drift |-> target_drift] :
                overall_status \in {"DRIFT_DETECTED", "NO_DRIFT"},
                target_drift \in {EmptyDict} \cup
                    {[status |-> status] :
                        status \in {"SIGNIFICANT_DRIFT", "MODERATE_DRIFT", "NO_DRIFT"}}}
    IN  sections \cup
        {report @@ ("performance_drift" :> [status |-> status]) :
            report \in sections,
            status \in {"SIGNIFICANT_DEGRADATION", "MODERATE_DEGRADATION",
                        "NO_DEGRADATION"}}

\* DriftDetector.get_drift_recommendation(drift_report): it reads no field of
\* the detector
GetDriftRecommendation ==
    \E drift_report \in RecommendationReports :
        /\ call' = [op |-> "get_drift_recommendation", drift_report |-> drift_report]
        /\ result' = Returned(get_drift_recommendation(drift_report))
        /\ UNCHANGED <<storage, reference_data, loads, files, now, previous, others>>

InitDetect == InitWith(DetectStorage)

NextDetect ==
    \/ DetectFeatureDrift
    \/ DetectStatisticalDrift
    \/ DetectTargetDrift
    \/ DetectModelPerformanceDrift
    \/ GetDriftRecommendation

SpecDetect == InitDetect /\ [][NextDetect]_vars

----------------------------------------------------------------------------
(***************************************************************************)
(* ModelEvaluator: the fit verdict.  Metrics are in hundredths; the gaps   *)
(* are exact differences (the rounding of binary floats is not modelled).  *)
(***************************************************************************)
OverfitThreshold == 10

HighGap == 15

UnderfitAccuracy == 60

SevereUnderfitAccuracy == 50

\* ModelEvaluator.get_recommendation
get_recommendation(status) ==
    IF status = "OVERFITTING"
    THEN "Consider: 1) Regularization, 2) More training data, 3) Reduce model complexity, 4) Cross-validation"
    ELSE IF status = "UNDERFITTING"
    THEN "Consider: 1) More complex model, 2) More features, 3) Feature engineering, 4) Remove regularization"
    ELSE IF status = "GOOD_FIT"
    THEN "Model is performing well! Continue monitoring."
    ELSE "No specific recommendation"

FitStatusInclusive(accuracy_gap, f1_gap, test_accuracy, threshold) ==
    IF accuracy_gap >= threshold \/ f1_gap >= threshold THEN "OVERFITTING"
    ELSE IF test_accuracy < UnderfitAccuracy THEN "UNDERFITTING"
    ELSE "GOOD_FIT"

FitStatusAccuracyFirst(accuracy_gap, f1_gap, test_accuracy, threshold) ==
    IF test_accuracy < UnderfitAccuracy THEN "UNDERFITTING"
    ELSE IF accuracy_gap > threshold \/ f1_gap > threshold THEN "OVERFITTING"
    ELSE "GOOD_FIT"

\* detect_overfitting, "Determine status": the branch taken
FitStatus(accuracy_gap, f1_gap, test_accuracy, threshold) ==
    IF accuracy_gap > threshold \/ f1_gap > threshold THEN "OVERFITTING"
    ELSE IF test_accuracy < UnderfitAccuracy THEN "UNDERFITTING"
    ELSE "GOOD_FIT"

FitSeverityInclusive(status, accuracy_gap, test_accuracy) ==
    IF status = "OVERFITTING"
    THEN IF accuracy_gap > HighGap THEN "HIGH" ELSE "MEDIUM"
    ELSE IF status = "UNDERFITTING"
    THEN IF test_accuracy <= SevereUnderfitAccuracy THEN "HIGH" ELSE "MEDIUM"
    ELSE "NONE"

\* detect_overfitting: the severity assigned in that branch
FitSeverity(status, accuracy_gap, test_accuracy) ==
    IF status = "OVERFITTING"
    THEN IF accuracy_gap > HighGap THEN "HIGH" ELSE "MEDIUM"
    ELSE IF status = "UNDERFITTING"
    THEN IF test_accuracy < SevereUnderfitAccuracy THEN "HIGH" ELSE "MEDIUM"
    ELSE "NONE"

\* ModelEvaluator.detect_overfitting(train_metrics, test_metrics, threshold)
detect_overfitting(train_metrics, test_metrics, threshold) ==
    LET accuracy_gap == train_metrics.accuracy - test_metrics.accuracy
        f1_gap == train_metrics.f1 - test_metrics.f1
        status == FitStatus(accuracy_gap, f1_gap, test_metrics.accuracy, threshold)
    IN  [status |-> status,
         severity |-> FitSeverity(status, accuracy_gap, test_metrics.accuracy),
         accuracy_gap |-> accuracy_gap,
         f1_gap |-> f1_gap,
         recommendation |-> get_recommendation(status)]

AccuracyValues == {45, 50, 55, 60, 70, 80, 95, 96}

F1Values == {60, 70, 86}

Metrics == [accuracy : AccuracyValues, f1 : F1Values]

DetectOverfitting ==
    \E train_metrics \in Metrics, test_metrics \in Metrics :
        /\ call' = [op |-> "detect_overfitting",
                    train_metrics |-> train_metrics,
                    test_metrics |-> test_metrics,
                    threshold |-> OverfitThreshold]
        /\ result' = Returned(detect_overfitting(train_metrics, test_metrics, OverfitThreshold))
        /\ UNCHANGED <<storage, reference_data, loads, files, now, previous, others>>

HighR2Gap == 15

UnderfitR2 == 50

SevereUnderfitR2 == 30

RegressionStatusInclusive(r2_gap, test_r2, threshold) ==
    IF r2_gap >= threshold THEN "OVERFITTING"
    ELSE IF test_r2 < UnderfitR2 THEN "UNDERFITTING"
    ELSE "GOOD_FIT"

\* detect_overfitting_regression, "Determine status": the branch taken
RegressionStatus(r2_gap, test_r2, threshold) ==
    IF r2_gap > threshold THEN "OVERFITTING"
    ELSE IF test_r2 < UnderfitR2 THEN "UNDERFITTING"
    ELSE "GOOD_FIT"

\* detect_overfitting_regression: the severity assigned in that branch
RegressionSeverity(status, r2_gap, test_r2) ==
    IF status = "OVERFITTING"
    THEN IF r2_gap > HighR2Gap THEN "HIGH" ELSE "MEDIUM"
    ELSE IF status = "UNDERFITTING"
    THEN IF test_r2 < SevereUnderfitR2 THEN "HIGH" ELSE "MEDIUM"
    ELSE "NONE"

\* ModelEvaluator.detect_overfitting_regression(train_metrics, test_metrics, threshold)
detect_overfitting_regression(train_metrics, test_metrics, threshold) ==
    LET r2_gap == train_metrics.r2 - test_metrics.r2
        status == RegressionStatus(r2_gap, test_metrics.r2, threshold)
    IN  [status |-> status,
         severity |-> RegressionSeverity(status, r2_gap, test_metrics.r2),
         r2_gap |-> r2_gap,
         recommendation |-> get_recommendation(status)]

\* r2 in hundredths; it is negative for a model worse than the mean
R2Values == {-20, 29, 30, 35, 49, 50, 60, 65, 66}

DetectOverfittingRegression ==
    \E train_r2 \in R2Values, test_r2 \in R2Values :
        /\ call' = [op |-> "detect_overfitting_regression",
                    train_metrics |-> [r2 |-> train_r2],
                    test_metrics |-> [r2 |-> test_r2],
                    threshold |-> OverfitThreshold]
        /\ result' = Returned(detect_overfitting_regression(
                                [r2 |-> train_r2], [r2 |-> test_r2], OverfitThreshold))
        /\ UNCHANGED <<storage, reference_data, loads, files, now, previous, others>>

InitFit == InitWith({None})

NextFit == DetectOverfitting \/ DetectOverfittingRegression

SpecFit == InitFit /\ [][NextFit]_vars

----------------------------------------------------------------------------
(***************************************************************************)
(* calculate_psi on the samples themselves.  A sample is a sequence of     *)
(* small naturals and NaN.  Percentiles and bin edges are kept in units of *)
(* 1/bins, so they are integers; proportions are quotients [num, den]      *)
(* scaled by 1/epsilon.  The returned float is kept by its sign: each term  *)
(* (c - r) * log(c / r) has the sign of the product of the signs of its two *)
(* factors, and a sum of terms of one sign has that sign.                  *)
(* numpy: what the installed numpy does where its versions differ.         *)
(***************************************************************************)
Bins == 10

EpsilonInverse == 10000

MinBreakpoints == 3

NaN == -1

HasNaN(sample) == \E i \in DOMAIN sample : sample[i] = NaN

\* the order of np.sort and np.searchsorted: NaN after every number
Precedes(x, y) == x # NaN /\ (y = NaN \/ x < y)

\* np.percentile(sample, np.linspace(0, 100, bins + 1)), in units of 1/bins:
\* NaN throughout for a sample that is empty or has a NaN, else the linear
\* interpolation between the two nearest ranks of the sorted sample
np_percentile(sample, bins) ==
    IF sample = <<>> \/ HasNaN(sample)
    THEN [k \in 1..(bins + 1) |-> NaN]
    ELSE LET sa == SortSeq(sample, Precedes)
             n == Len(sa)
         IN  [k \in 1..(bins + 1) |->
                LET position == (k - 1) * (n - 1)
                    below == (position \div bins) + 1
                    above == IF below < n THEN below + 1 ELSE n
                IN  sa[below] * bins + (position % bins) * (sa[above] - sa[below])]

\* np.unique: the distinct numbers in ascending order, then the NaNs, as one
\* NaN if this numpy takes NaNs for equal
np_unique(values, collapses_nan) ==
    LET numbers == {values[i] : i \in DOMAIN values} \ {NaN}
        nans == Cardinality({i \in DOMAIN values : values[i] = NaN})
        ascending == [i \in 1..Cardinality(numbers) |->
                        CHOOSE x \in numbers :
                            Cardinality({y \in numbers : y < x}) = i - 1]
    IN  ascending \o [i \in 1..(IF collapses_nan /\ nans > 0 THEN 1 ELSE nans) |-> NaN]

\* sa.searchsorted(edge, 'left') and (edge, 'right') for the sorted sample
SearchLeft(sample, edge) ==
    Cardinality({i \in DOMAIN sample :
        sample[i] # NaN /\ (edge = NaN \/ sample[i] * Bins < edge)})

SearchRight(sample, edge) ==
    Cardinality({i \in DOMAIN sample :
        edge = NaN \/ (sample[i] # NaN /\ sample[i] * Bins <= edge)})

\* np.histogram(sample, bins=edges)[0]: the differences of the cumulative
\* counts, the last bin closed on the right
np_histogram(sample, edges) ==
    LET m == Len(edges)
        cum_n == [j \in 1..m |->
                    IF j < m THEN SearchLeft(sample, edges[j])
                    ELSE SearchRight(sample, edges[j])]
    IN  [j \in 1..(m - 1) |-> cum_n[j + 1] - cum_n[j]]

\* (ref_counts + epsilon) / (len(reference) + epsilon * bins)
ref_props(ref_counts, n, bins) ==
    [j \in DOMAIN ref_counts |->
        Frac(ref_counts[j] * EpsilonInverse + 1, n * EpsilonInverse + bins)]

curr_propsUnsmoothed(curr_counts, n, bins) ==
    [j \in DOMAIN curr_counts |->
        Frac(curr_counts[j] * EpsilonInverse, n * EpsilonInverse)]

\* (curr_counts + epsilon) / (len(current) + epsilon * bins)
curr_props(curr_counts, n, bins) ==
    [j \in DOMAIN curr_counts |->
        Frac(curr_counts[j] * EpsilonInverse + 1, n * EpsilonInverse + bins)]

\* the sign of a - b
DifferenceSign(a, b) == IF FracGT(a, b) THEN 1 ELSE IF FracGT(b, a) THEN -1 ELSE 0

LogQuotientSignInverted(a, b) ==
    DifferenceSign(Frac(b.num * a.den, b.den * a.num), Frac(1, 1))

\* the sign of np.log(a / b)
LogQuotientSign(a, b) ==
    DifferenceSign(Frac(a.num * b.den, a.den * b.num), Frac(1, 1))

\* the sign of np.sum of terms with these signs; 2: not fixed by them
SumSign(signs) ==
    IF signs \subseteq {0} THEN 0
    ELSE IF signs \subseteq {0, 1} THEN 1
    ELSE IF signs \subseteq {0, -1} THEN -1
    ELSE 2

\* the float 0.0
ZeroPsi == [sign |-> 0]

\* the body of the try statement of calculate_psi
PsiTry(reference, current, bins, numpy) ==
    IF reference = <<>> /\ numpy.percentile_raises_on_empty
    THEN Raised("IndexError")
    ELSE LET breakpoints == np_unique(np_percentile(reference, bins),
                                      numpy.unique_collapses_nan)
         IN  IF Len(breakpoints) < MinBreakpoints
             THEN Returned(ZeroPsi)
             ELSE LET r == ref_props(np_histogram(reference, breakpoints),
                                     Len(reference), bins)
                      c == curr_props(np_histogram(current, breakpoints),
                                      Len(current), bins)
                  IN  Returned([sign |->
                        SumSign({DifferenceSign(c[j], r[j]) * LogQuotientSign(c[j], r[j]) :
                                    j \in DOMAIN r})])

PsiExceptReraise(error) == Raised(error)

\* "except Exception as e: ... return 0.0"
PsiExcept(error) == Returned(ZeroPsi)

\* DriftDetector.calculate_psi(reference, current, bins) on two samples
calculate_psi_samples(reference, current, bins, numpy) ==
    LET tried == PsiTry(reference, current, bins, numpy)
    IN  IF tried.outcome = "raised" THEN PsiExcept(tried.error) ELSE tried

MaxLen == 3

ReferenceValues == {0, 1, 3, NaN}

CurrentValues == {0, 2, 7, NaN}

Samples(values, len) == UNION {[1..n -> values] : n \in 0..len}

NumpyVersions == [percentile_raises_on_empty : BOOLEAN, unique_collapses_nan : BOOLEAN]

\* the numpy versions differ on an empty reference and on one with a NaN
NumpyVersionsFor(reference) ==
    IF reference = <<>> \/ HasNaN(reference)
    THEN NumpyVersions
    ELSE {[percentile_raises_on_empty |-> TRUE, unique_collapses_nan |-> TRUE]}

\* calculate_psi has been called with a reference sample and, as the current
\* one, the reference itself or a shorter sample
InitPsi ==
    /\ storage = None
    /\ reference_data = None
    /\ loads = 0
    /\ files = NoFiles
    /\ now = 0
    /\ \E reference \in Samples(ReferenceValues, MaxLen) :
       \E current \in {reference} \cup Samples(CurrentValues, MaxLen - 1) :
       \E numpy \in NumpyVersionsFor(reference) :
            call = [op |-> "calculate_psi", reference |-> reference,
                    current |-> current, bins |-> Bins, numpy |-> numpy]
    /\ result = [outcome |-> "none"]
    /\ previous = None
    /\ InitOthers

\* it runs to its return
CalculatePsi ==
    /\ call.op = "calculate_psi"
    /\ result.outcome = "none"
    /\ result' = calculate_psi_samples(call.reference, call.current, call.bins, call.numpy)
    /\ UNCHANGED <<storage, reference_data, loads, files, now, call, previous, others>>

NextPsi == CalculatePsi

SpecPsi == InitPsi /\ [][NextPsi]_vars

----------------------------------------------------------------------------
(***************************************************************************)
(* EnhancedMigrainePredictor: load_models and predict.  A loaded model is  *)
(* named by its file.  What a model predicts for an input is an input of   *)
(* the call: the classifier's class (the label is 0 or 1) and the          *)
(* regressor's output after round(severity, 1), in tenths.                 *)
(***************************************************************************)
\* the files in the order load_models opens them
LoadOrder ==
    <<"models_info.json",
      "classification_model_top1.pkl", "regression_model_top1.pkl",
      "classification_model_top2.pkl", "regression_model_top2.pkl",
      "feature_names.pkl">>

ClassificationFiles == {"classification_model_top1.pkl", "classification_model_top2.pkl"}

RegressionFiles == {"regression_model_top1.pkl", "regression_model_top2.pkl"}

\* how many files load_models opens before open raises FileNotFoundError
Opened(present) ==
    CHOOSE n \in 0..Len(LoadOrder) :
        /\ \A i \in 1..n : LoadOrder[i] \in present
        /\ n < Len(LoadOrder) => LoadOrder[n + 1] \notin present

\* EnhancedMigrainePredictor.load_models: the predictor afterwards and the
\* value returned.  Both lists are emptied first; each model read is
\* appended at once; feature_names is assigned after the last file.
load_models(self, present) ==
    LET n == Opened(present)
        read == SubSeq(LoadOrder, 1, n)
    IN  [predictor |->
            [top_classification_models |->
                SelectSeq(read, LAMBDA f : f \in ClassificationFiles),
             top_regression_models |->
                SelectSeq(read, LAMBDA f : f \in RegressionFiles),
             feature_names |->
                IF n = Len(LoadOrder) THEN Some("feature_names.pkl")
                ELSE self.feature_names],
         returned |-> n = Len(LoadOrder)]

SeverityUpperOnly(occurrence, severity) ==
    IF occurrence = 1
    THEN IF severity < 100 THEN severity ELSE 100
    ELSE 0

\* "float(max(1, min(10, round(severity, 1))))" if occurrence is 1, else 0
Severity(occurrence, severity) ==
    IF occurrence = 1
    THEN LET capped == IF severity < 100 THEN severity ELSE 100
         IN  IF capped > 10 THEN capped ELSE 10
    ELSE 0

\* the entry of predictions for one of the two models
ModelPrediction(classifier, output) ==
    [name |-> classifier,
     occurrence |-> output.occurrence,
     severity |-> Severity(output.occurrence, output.severity)]

\* which index of which list predict reads for these outputs
PredictReads(self, outputs) ==
    /\ Len(self.top_classification_models) >= 2
    /\ outputs.model1.occurrence = 1 => Len(self.top_regression_models) >= 1
    /\ outputs.model2.occurrence = 1 => Len(self.top_regression_models) >= 2

RegressionOutputs == {-5, 4, 10, 55, 100, 123}

ModelOutputs == [occurrence : {0, 1}, severity : RegressionOutputs]

\* EnhancedMigrainePredictor.load_models()
LoadModels ==
    LET loaded == load_models(predictor, model_files)
    IN  /\ call' = [op |-> "load_models"]
        /\ predictor' = loaded.predictor
        /\ result' = Returned(loaded.returned)
        /\ UNCHANGED <<storage, reference_data, loads, files, now, previous,
                       model_files, predictions_window>>

\* EnhancedMigrainePredictor.predict(input_data); outputs: what the two
\* classifiers and the two regressors give for input_data
Predict ==
    \E model1 \in ModelOutputs, model2 \in ModelOutputs :
        LET outputs == [model1 |-> model1, model2 |-> model2]
            loads_first == predictor.top_classification_models = <<>>
            loaded == IF loads_first
                      THEN load_models(predictor, model_files)
                      ELSE [predictor |-> predictor, returned |-> TRUE]
            self == loaded.predictor
        IN  /\ call' = [op |-> "predict", outputs |-> outputs]
            /\ predictor' = self
            /\ result' =
                IF ~loaded.returned THEN Returned(None)
                ELSE IF self.feature_names = None THEN Raised("TypeError")
                ELSE IF ~PredictReads(self, outputs) THEN Raised("IndexError")
                ELSE Returned(
                    [model1 |-> ModelPrediction(self.top_classification_models[1], model1),
                     model2 |-> ModelPrediction(self.top_classification_models[2], model2)])
            /\ UNCHANGED <<storage, reference_data, loads, files, now, previous,
                           model_files, predictions_window>>

\* any of the model files may be missing
InitPredictor ==
    /\ storage = None
    /\ reference_data = None
    /\ loads = 0
    /\ files = NoFiles
    /\ now = 0
    /\ call = NoCall
    /\ result = [outcome |-> "none"]
    /\ previous = None
    /\ model_files \in SUBSET {LoadOrder[i] : i \in DOMAIN LoadOrder}
    /\ predictor = NewPredictor
    /\ predictions_window = <<>>

NextPredictor == LoadModels \/ Predict

SpecPredictor == InitPredictor /\ [][NextPredictor]_vars

----------------------------------------------------------------------------
(***************************************************************************)
(* DeploymentMonitor: record_prediction, get_current_stats, check_health.  *)
(* predictions_window holds the latency of each recorded prediction, in    *)
(* milliseconds, oldest first; the deque drops the oldest entry when full. *)
(***************************************************************************)
\* the maxlen of the deque (1000 in the source)
MaxWindow == 3

\* 1.0 second
HighLatency == 1000

Latencies == {200, 1000, 1001, 1800}

RECURSIVE SumLatency(_)
SumLatency(window) ==
    IF window = <<>> THEN 0 ELSE Head(window) + SumLatency(Tail(window))

\* deque.append with maxlen
deque_append(window, entry) ==
    IF Len(window) < MaxWindow
    THEN Append(window, entry)
    ELSE Append(Tail(window), entry)

\* DeploymentMonitor.get_current_stats: {} for an empty window
get_current_stats(window) ==
    IF window = <<>>
    THEN None
    ELSE Some([total_predictions |-> Len(window),
               avg_latency |-> Frac(SumLatency(window), Len(window))])

\* DeploymentMonitor.check_health
check_health(window) ==
    LET stats == get_current_stats(window)
        avg_latency == IF stats = None THEN Frac(0, 1) ELSE stats.some.avg_latency
        total_predictions == IF stats = None THEN 0 ELSE stats.some.total_predictions
        high == FracGT(avg_latency, Frac(HighLatency, 1))
    IN  [status |-> IF high THEN "warning" ELSE "healthy",
         checks |->
            [latency |-> [status |-> IF high THEN "warning" ELSE "ok",
                          value |-> avg_latency],
             predictions |-> IF total_predictions > 0
                             THEN [status |-> "ok", value |-> Frac(total_predictions, 1)]
                             ELSE [status |-> "warning",
                                   message |-> "No predictions made recently"]]]

\* DeploymentMonitor.record_prediction(model_type, prediction, confidence, latency)
RecordPrediction ==
    \E latency \in Latencies :
        /\ call' = [op |-> "record_prediction", latency |-> latency]
        /\ predictions_window' = deque_append(predictions_window, latency)
        /\ result' = Returned(None)
        /\ UNCHANGED <<storage, reference_data, loads, files, now, previous,
                       model_files, predictor>>

\* DeploymentMonitor.check_health()
CheckHealth ==
    /\ call' = [op |-> "check_health"]
    /\ result' = Returned(check_health(predictions_window))
    /\ UNCHANGED <<storage, reference_data, loads, files, now, previous, others>>

InitMonitor ==
    /\ storage = None
    /\ reference_data = None
    /\ loads = 0
    /\ files = NoFiles
    /\ now = 0
    /\ call = NoCall
    /\ result = [outcome |-> "none"]
    /\ previous = None
    /\ InitOthers

NextMonitor == RecordPrediction \/ CheckHealth

SpecMonitor == InitMonitor /\ [][NextMonitor]_vars

----------------------------------------------------------------------------
(***************************************************************************)
(* Pairs of invocations: a session of comprehensive_drift_check calls in   *)
(* which `previous` remembers one earlier invocation, any of them.         *)
(***************************************************************************)
PairPerformanceArgs ==
    {<<None, None, None>>,
     <<Some("labels"), Some([accuracy |-> 70]), Some(80)>>}

\* current datasets: no column, the label only, a feature and the label; the
\* feature with a PSI above or below the threshold and a KS p-value below alpha
PairDatasets ==
    Datasets(MaxRows, {}, {}, {MaxRows})
    \cup {Dataset(MaxRows, ("age" :> FeatureColumn("numeric", psi, 10))
                            @@ (target_col :> LabelColumn(2))) : psi \in {50, 250}}

\* an invocation; the one it follows is remembered or not
PairCheck ==
    \E current_data \in PairDatasets, args \in PairPerformanceArgs :
        /\ ComprehensiveDriftCheck(current_data, args[1], args[2], args[3], now, FALSE)
        /\ previous' \in {previous} \cup
                IF call.op = "comprehensive_drift_check"
                THEN {Some([call |-> call, result |-> result])}
                ELSE {}
        /\ UNCHANGED others

InitPairs == InitWith(SessionStorage)

NextPairs == PairCheck \/ Tick

SpecPairs == InitPairs /\ [][NextPairs]_vars

----------------------------------------------------------------------------
(***************************************************************************)
(* Properties.                                                             *)
(***************************************************************************)
ReturnedFrom(op) == call.op = op /\ result.outcome = "returned"

\* comprehensive_drift_check assembled a report: the one it returned, or the
\* one whose persistence raised
Assembled == call.op = "comprehensive_drift_check" /\ result.outcome # "none"
                /\ (result.outcome = "returned" \/ "report" \in DOMAIN result)

AssembledReport == IF result.outcome = "returned" THEN result.value ELSE result.report

TargetSignificant(report) ==
    /\ "status" \in DOMAIN report.target_drift
    /\ report.target_drift.status = "SIGNIFICANT_DRIFT"

\* C1: in every report comprehensive_drift_check returns (and in every report
\* it assembled but failed to persist), drift_detected is true iff the feature
\* summary's overall_status is DRIFT_DETECTED or the target status is
\* SIGNIFICANT_DRIFT, and action_required equals drift_detected.
C1_DriftDetectedIffFeatureOrTarget ==
    Assembled =>
        LET report == AssembledReport
        IN  /\ report.overall_assessment.drift_detected <=>
                (\/ report.feature_drift.summary.overall_status = "DRIFT_DETECTED"
                 \/ TargetSignificant(report))
            /\ report.overall_assessment.action_required
                = report.overall_assessment.drift_detected

C1_Witness ==
    /\ ReturnedFrom("comprehensive_drift_check")
    /\ result.value.overall_assessment.drift_detected
    /\ result.value.feature_drift.summary.overall_status = "NO_DRIFT"

\* C2: whenever comprehensive_drift_check returns a report, the file stamped
\* with the second of the run and the latest file both exist and hold the same
\* text, the complete JSON text of the returned report.
C2_BothFilesHoldReturnedReport ==
    ReturnedFrom("comprehensive_drift_check") =>
        LET report == result.value
            stamp == report.timestamp
        IN  /\ stamp \in DOMAIN files.stamped
            /\ files.latest # None
            /\ files.stamped[stamp] = files.latest.some
            /\ Len(files.latest.some) = Cardinality(DOMAIN report)
            /\ \A i \in 1..Len(files.latest.some) :
                 LET entry == files.latest.some[i]
                 IN  /\ entry[1] \in DOMAIN report
                     /\ entry[2] = JsonValue(entry[1], report[entry[1]])

C2_Witness ==
    /\ ReturnedFrom("comprehensive_drift_check")
    /\ "performance_drift" \in DOMAIN result.value
    /\ now = 1
    /\ 0 \in DOMAIN files.stamped

\* C3: every feature detect_feature_drift analyses with the default threshold
\* gets the tier of its PSI value: NO_DRIFT below 0.1, MODERATE_DRIFT from 0.1
\* up to but not including 0.2, SIGNIFICANT_DRIFT from 0.2 on.
C3_TierFromPsi ==
    (ReturnedFrom("detect_feature_drift") /\ call.threshold = 200) =>
        \A col \in DOMAIN result.value.feature_drift :
            LET verdict == result.value.feature_drift[col]
                psi == call.current_data.columns[col].psi
            IN  /\ verdict.psi = psi
                /\ verdict.status \in {"NO_DRIFT", "MODERATE_DRIFT", "SIGNIFICANT_DRIFT"}
                /\ verdict.status = "NO_DRIFT" <=> psi < 100
                /\ verdict.status = "MODERATE_DRIFT" <=> (100 <= psi /\ psi < 200)
                /\ verdict.status = "SIGNIFICANT_DRIFT" <=> psi >= 200

C3_Witness ==
    /\ ReturnedFrom("detect_feature_drift")
    /\ call.threshold = 200
    /\ DOMAIN result.value.feature_drift = Features
    /\ result.value.feature_drift["age"].psi = 200
    /\ result.value.feature_drift["age"].status = "SIGNIFICANT_DRIFT"
    /\ result.value.feature_drift["stress_level"].psi = 100
    /\ result.value.feature_drift["stress_level"].status = "MODERATE_DRIFT"

FitCall == ReturnedFrom("detect_overfitting")

AccuracyGap == call.train_metrics.accuracy - call.test_metrics.accuracy

F1Gap == call.train_metrics.f1 - call.test_metrics.f1

\* C4: detect_overfitting gives every pair of metrics one status: OVERFITTING
\* if the accuracy gap or the f1 gap exceeds 0.10, otherwise UNDERFITTING if the
\* test accuracy is below 0.60, otherwise GOOD_FIT.
C4_FitStatus ==
    FitCall =>
        result.value.status =
            IF AccuracyGap > 10 \/ F1Gap > 10 THEN "OVERFITTING"
            ELSE IF call.test_metrics.accuracy < 60 THEN "UNDERFITTING"
            ELSE "GOOD_FIT"

C4_Witness ==
    /\ FitCall
    /\ AccuracyGap = 10
    /\ F1Gap = 10
    /\ call.test_metrics.accuracy = 60
    /\ result.value.status = "GOOD_FIT"

\* C5: when detect_overfitting returns OVERFITTING, the severity is HIGH
\* exactly when a gap that exceeded the 0.10 threshold (the accuracy gap or the
\* f1 gap) is strictly greater than 0.15, and MEDIUM otherwise.
C5_SeverityFromExceedingGap ==
    (FitCall /\ result.value.status = "OVERFITTING") =>
        /\ result.value.severity \in {"HIGH", "MEDIUM"}
        /\ result.value.severity = "HIGH" <=> (AccuracyGap > 15 \/ F1Gap > 15)

\* C6: the gap check precedes the accuracy check: a gap above the threshold
\* gives OVERFITTING however low the test accuracy, and UNDERFITTING is
\* returned only when no gap exceeds the threshold.
C6_GapCheckFirst ==
    FitCall =>
        /\ (AccuracyGap > 10 \/ F1Gap > 10) => result.value.status = "OVERFITTING"
        /\ result.value.status = "UNDERFITTING" => (AccuracyGap <= 10 /\ F1Gap <= 10)

C6_Witness ==
    /\ FitCall
    /\ call.train_metrics.accuracy = 70
    /\ call.test_metrics.accuracy = 55
    /\ result.value.status = "OVERFITTING"

\* the positive-class proportion of a dataset's label column, 0 when no row is 1
PositiveRate(data) ==
    IF data.columns[target_col].ones = 0
    THEN Frac(0, 1)
    ELSE Frac(data.columns[target_col].ones, data.rows)

BothLabelled ==
    /\ target_col \in DOMAIN call.current_data.columns
    /\ target_col \in DOMAIN reference_data.some.columns

\* C7: with the label column in both datasets, detect_target_drift reports
\* drift_magnitude = |reference positive rate - current positive rate| (a class
\* that does not occur counts 0) and the status SIGNIFICANT_DRIFT when the
\* magnitude is strictly greater than 0.1, NO_DRIFT otherwise.
C7_TargetDriftMagnitude ==
    (ReturnedFrom("detect_target_drift") /\ BothLabelled) =>
        LET r == PositiveRate(reference_data.some)
            c == PositiveRate(call.current_data)
            difference == Frac(Abs(r.num * c.den - c.num * r.den), r.den * c.den)
        IN  /\ "drift_magnitude" \in DOMAIN result.value
            /\ FracEQ(result.value.drift_magnitude, difference)
            /\ result.value.status =
                IF 10 * difference.num > difference.den
                THEN "SIGNIFICANT_DRIFT" ELSE "NO_DRIFT"

C7_Witness ==
    /\ ReturnedFrom("detect_target_drift")
    /\ BothLabelled
    /\ 1 \notin DOMAIN result.value.current_distribution
    /\ result.value.status = "SIGNIFICANT_DRIFT"

\* C8: if the label column is missing from the current or the reference
\* dataset, comprehensive_drift_check still completes, with an empty target
\* result, and drift_detected is decided by feature drift alone.
C8_MissingLabelStillCompletes ==
    (/\ call.op = "comprehensive_drift_check"
     /\ reference_data # None
     /\ \/ target_col \notin DOMAIN call.current_data.columns
        \/ target_col \notin DOMAIN reference_data.some.columns) =>
        /\ result.outcome = "returned"
        /\ result.value.target_drift = EmptyDict
        /\ result.value.overall_assessment.drift_detected <=>
            result.value.feature_drift.summary.overall_status = "DRIFT_DETECTED"

\* C9: detect_model_performance_drift computes degradation_pct =
\* (baseline - current) / baseline * 100 and the status is
\* SIGNIFICANT_DEGRADATION when it is above 10, MODERATE_DEGRADATION when it is
\* above 5 and at most 10, NO_DEGRADATION otherwise.
C9_DegradationStatus ==
    ReturnedFrom("detect_model_performance_drift") =>
        LET baseline == call.baseline_accuracy
            drop == baseline - call.model.accuracy
        IN  /\ result.value.accuracy_drop = drop
            /\ result.value.performance_degradation_pct.den = baseline
            /\ result.value.performance_degradation_pct.num = drop * 100
            /\ result.value.status =
                IF drop * 100 > 10 * baseline THEN "SIGNIFICANT_DEGRADATION"
                ELSE IF drop * 100 > 5 * baseline THEN "MODERATE_DEGRADATION"
                ELSE "NO_DEGRADATION"

C9_Witness ==
    /\ ReturnedFrom("detect_model_performance_drift")
    /\ call.baseline_accuracy = 80
    /\ call.model.accuracy = 72
    /\ result.value.status = "MODERATE_DEGRADATION"

\* C10: a report of comprehensive_drift_check has a performance_drift section
\* iff a model, the current labels and a baseline accuracy were all supplied;
\* feature_drift, statistical_drift and target_drift are always there.
C10_PerformanceSectionIffAllSupplied ==
    Assembled =>
        /\ "performance_drift" \in DOMAIN AssembledReport <=>
            (/\ call.model # None
             /\ call.current_labels # None
             /\ call.baseline_accuracy # None)
        /\ {"feature_drift", "statistical_drift", "target_drift"}
            \subseteq DOMAIN AssembledReport

C10_Witness ==
    /\ ReturnedFrom("comprehensive_drift_check")
    /\ call.model # None /\ call.current_labels # None /\ call.baseline_accuracy # None
    /\ result.value.performance_drift.status = "SIGNIFICANT_DEGRADATION"

\* the messages of get_drift_recommendation and their place in the fixed order
RecommendationRank ==
    ("RETRAIN MODEL: Significant feature drift detected" :> 1)
    @@ ("INVESTIGATE DATA: Target distribution has shifted significantly" :> 2)
    @@ ("MODEL RETRAINING REQUIRED: SIGNIFICANT_DEGRADATION" :> 3)
    @@ ("MODEL RETRAINING REQUIRED: MODERATE_DEGRADATION" :> 3)
    @@ ("NO ACTION REQUIRED: Model is performing well" :> 4)

Recommends(messages, message) == \E i \in DOMAIN messages : messages[i] = message

DegradationOf(drift_report) ==
    IF "performance_drift" \in DOMAIN drift_report
    THEN drift_report.performance_drift.status
    ELSE "absent"

\* C11: the recommendation holds the RETRAIN MODEL message iff the feature
\* summary says DRIFT_DETECTED, the INVESTIGATE DATA message iff the target
\* status is SIGNIFICANT_DRIFT, the MODEL RETRAINING REQUIRED message of a
\* status iff a performance section has that MODERATE or SIGNIFICANT status,
\* and the NO ACTION REQUIRED message iff none of these; it holds nothing
\* else, and its messages stand in the order feature, target, performance.
C11_RecommendationConcatenation ==
    ReturnedFrom("get_drift_recommendation") =>
        LET drift_report == call.drift_report
            messages == result.value
            feature == drift_report.feature_drift.summary.overall_status = "DRIFT_DETECTED"
            target == /\ "status" \in DOMAIN drift_report.target_drift
                      /\ drift_report.target_drift.status = "SIGNIFICANT_DRIFT"
            degradation == DegradationOf(drift_report)
            performance == degradation \in {"MODERATE_DEGRADATION", "SIGNIFICANT_DEGRADATION"}
        IN  /\ \A i \in DOMAIN messages : messages[i] \in DOMAIN RecommendationRank
            /\ \A i, j \in DOMAIN messages :
                    i < j => RecommendationRank[messages[i]] < RecommendationRank[messages[j]]
            /\ Recommends(messages, "RETRAIN MODEL: Significant feature drift detected")
                    <=> feature
            /\ Recommends(messages, "INVESTIGATE DATA: Target distribution has shifted significantly")
                    <=> target
            /\ Recommends(messages, "MODEL RETRAINING REQUIRED: SIGNIFICANT_DEGRADATION")
                    <=> degradation = "SIGNIFICANT_DEGRADATION"
            /\ Recommends(messages, "MODEL RETRAINING REQUIRED: MODERATE_DEGRADATION")
                    <=> degradation = "MODERATE_DEGRADATION"
            /\ Recommends(messages, "NO ACTION REQUIRED: Model is performing well")
                    <=> ~(feature \/ target \/ performance)

\* all three rules triggered, the performance one by a moderate degradation
C11_Witness ==
    /\ ReturnedFrom("get_drift_recommendation")
    /\ call.drift_report.feature_drift.summary.overall_status = "DRIFT_DETECTED"
    /\ Get(call.drift_report.target_drift, "status", "None") = "SIGNIFICANT_DRIFT"
    /\ DegradationOf(call.drift_report) = "MODERATE_DEGRADATION"
    /\ Len(result.value) = 3

\* C12: whenever the reference is there, detect_feature_drift returns, also for
\* a current dataset with non-numeric columns; its verdicts are those of the
\* numeric columns of the current dataset that the reference has too and that
\* are not the label, and total_features is their number.
C12_NonNumericColumnsSkipped ==
    (call.op = "detect_feature_drift" /\ storage # None) =>
        /\ result.outcome = "returned"
        /\ LET current == call.current_data.columns
               shared == {col \in DOMAIN current :
                            /\ col \in DOMAIN reference_data.some.columns
                            /\ col # "migraine_occurrence"
                            /\ current[col].dtype = "numeric"}
           IN  /\ DOMAIN result.value.feature_drift = shared
               /\ result.value.summary.total_features = Cardinality(shared)

\* a current dataset with a numeric column, a non-numeric column and the
\* label, all three in the reference: one feature analysed
C12_Witness ==
    /\ ReturnedFrom("detect_feature_drift")
    /\ DOMAIN reference_data.some.columns = Features \cup {"migraine_occurrence"}
    /\ DOMAIN call.current_data.columns = Features \cup {"migraine_occurrence"}
    /\ call.current_data.columns["age"].dtype = "numeric"
    /\ call.current_data.columns["stress_level"].dtype = "object"
    /\ DOMAIN result.value.feature_drift = {"age"}
    /\ result.value.summary.total_features = 1

\* C13: in the summary of detect_feature_drift, drifted_feature_names are the
\* analysed features with status SIGNIFICANT_DRIFT, drifted_features is their
\* number, and overall_status is DRIFT_DETECTED if there is one and NO_DRIFT
\* if there is none.
C13_SummaryCountsSignificantOnly ==
    ReturnedFrom("detect_feature_drift") =>
        LET verdicts == result.value.feature_drift
            summary == result.value.summary
            significant == {col \in DOMAIN verdicts :
                                verdicts[col].status = "SIGNIFICANT_DRIFT"}
        IN  /\ summary.drifted_feature_names = significant
            /\ summary.drifted_features = Cardinality(summary.drifted_feature_names)
            /\ summary.overall_status \in {"DRIFT_DETECTED", "NO_DRIFT"}
            /\ summary.overall_status = "DRIFT_DETECTED" <=> significant # {}

\* one feature with significant and one with moderate drift
C13_Witness ==
    /\ ReturnedFrom("detect_feature_drift")
    /\ DOMAIN result.value.feature_drift = Features
    /\ result.value.feature_drift["age"].status = "MODERATE_DRIFT"
    /\ result.value.feature_drift["stress_level"].status = "SIGNIFICANT_DRIFT"
    /\ result.value.summary.drifted_feature_names = {"stress_level"}
    /\ result.value.summary.drifted_features = 1
    /\ result.value.summary.overall_status = "DRIFT_DETECTED"

\* C14: on one detector, a step never brings the number of loads of the
\* reference above one; once the reference is set, no step changes it or loads
\* it again; and a reference that is set is the dataset of the file.
C14_ReferenceLoadedOnce ==
    [][/\ loads' <= 1
       /\ reference_data # None =>
            (reference_data' = reference_data /\ loads' = loads)
       /\ reference_data' # None => reference_data' = storage]_vars

\* two runs at different seconds have completed on one load
C14_Witness ==
    /\ loads = 1
    /\ reference_data # None
    /\ DOMAIN files.stamped = {0, 1}
    /\ ReturnedFrom("comprehensive_drift_check")

\* C15: with no reference file, comprehensive_drift_check ends with the
\* FileNotFoundError of the load and with no report, neither report file
\* exists, and the cached reference is unset.
C15_LoadFailurePropagates ==
    (call.op = "comprehensive_drift_check" /\ storage = None) =>
        /\ result.outcome = "raised"
        /\ result.error = "FileNotFoundError"
        /\ DOMAIN result = {"outcome", "error"}
        /\ files.stamped = EmptyDict
        /\ files.latest = None
        /\ reference_data = None

\* a second call that fails the same way, a second later
C15_Witness ==
    /\ call.op = "comprehensive_drift_check"
    /\ storage = None
    /\ result.outcome = "raised"
    /\ now = 1

\* C16: when the script is run as a program and there is no dataset file,
\* the process ends with a status other than zero.
C16_CliExitsNonZeroOnLoadFailure ==
    (call.op = "__main__" /\ storage = None) =>
        (result.outcome = "exited" /\ result.status # 0)

\* a report with every timestamp in it set to the same value
WithoutTimestamps(report) ==
    [key \in DOMAIN report |->
        IF key = "timestamp" THEN 0
        ELSE IF key \in {"feature_drift", "statistical_drift", "performance_drift"}
        THEN [report[key] EXCEPT !.timestamp = 0]
        ELSE IF key = "target_drift" /\ "timestamp" \in DOMAIN report[key]
        THEN [report[key] EXCEPT !.timestamp = 0]
        ELSE report[key]]

\* how an invocation ended, apart from the timestamps of its report
OutcomeWithoutTimestamps(outcome) ==
    IF outcome.outcome = "returned"
    THEN [outcome EXCEPT !.value = WithoutTimestamps(@)]
    ELSE IF "report" \in DOMAIN outcome
    THEN [outcome EXCEPT !.report = WithoutTimestamps(@)]
    ELSE outcome

\* C17: an invocation of comprehensive_drift_check and any earlier one of the
\* same detector with the same arguments ended the same way and assembled the
\* same report, apart from the timestamps, whatever was invoked before and
\* between them.
C17_InvocationsIndependent ==
    (/\ previous # None
     /\ call.op = "comprehensive_drift_check"
     /\ previous.some.call = call) =>
        OutcomeWithoutTimestamps(previous.some.result) = OutcomeWithoutTimestamps(result)

\* the same invocation a second earlier and now, both returning a report with a
\* performance section, after reports had been written
C17_Witness ==
    /\ previous # None
    /\ previous.some.call = call
    /\ ReturnedFrom("comprehensive_drift_check")
    /\ previous.some.result.outcome = "returned"
    /\ "performance_drift" \in DOMAIN result.value
    /\ previous.some.result.value.timestamp = 0
    /\ result.value.timestamp = 1
    /\ previous.some.result.value # result.value

\* a report file that json.dump wrote to its end
CompleteText(text) == Len(text) > 0 /\ text[Len(text)][1] = "overall_assessment"

\* C18: a timestamped file that holds a whole report is still there with the
\* same text after every later step.
C18_TimestampedReportImmutable ==
    [][\A s \in DOMAIN files.stamped :
          CompleteText(files.stamped[s]) =>
              (s \in DOMAIN files'.stamped /\ files'.stamped[s] = files.stamped[s])]_vars

PsiCalled == call.op = "calculate_psi" /\ result.outcome # "none"

\* np.percentile raises on the reference of the call
PercentileRaises == call.reference = <<>> /\ call.numpy.percentile_raises_on_empty

\* the reference of the call yields fewer than three unique breakpoints
FewBreakpoints ==
    Len(np_unique(np_percentile(call.reference, call.bins),
                  call.numpy.unique_collapses_nan)) < 3

C20_PsiOfReferenceWithItself ==
    (PsiCalled /\ call.current = call.reference
        /\ ~PercentileRaises /\ ~FewBreakpoints) =>
        result = [outcome |-> "returned", value |-> [sign |-> 0]]

\* the sample 0, 3, 1 against itself: eleven breakpoints, ten bins
C20_Witness ==
    /\ PsiCalled
    /\ call.reference = <<0, 3, 1>>
    /\ call.current = call.reference
    /\ ~FewBreakpoints
    /\ result.value.sign = 0

\* C21: calculate_psi returns a value that is not negative, whatever the two
\* samples: current values inside, partly outside or wholly outside the range
\* of the reference, and the calls that fall back to 0.0.
C21_PsiNonNegative ==
    PsiCalled => (result.outcome = "returned" /\ result.value.sign \in {0, 1})

\* a current sample wholly above the range of a reference with ten bins
C21_Witness ==
    /\ PsiCalled
    /\ call.reference = <<0, 3, 1>>
    /\ call.current = <<7, 7>>
    /\ result.outcome = "returned"
    /\ result.value.sign = 1

\* C22: detect_overfitting_regression with the default threshold gives
\* OVERFITTING iff train r2 - test r2 exceeds 0.10, with severity HIGH iff the
\* gap exceeds 0.15 and MEDIUM otherwise; else UNDERFITTING iff test r2 is
\* below 0.50, with severity HIGH iff it is below 0.30 and MEDIUM otherwise;
\* else GOOD_FIT with severity NONE.
C22_RegressionFitFromR2Gap ==
    (ReturnedFrom("detect_overfitting_regression") /\ call.threshold = 10) =>
        LET gap == call.train_metrics.r2 - call.test_metrics.r2
            test == call.test_metrics.r2
            verdict == result.value
        IN  /\ verdict.r2_gap = gap
            /\ verdict.status = "OVERFITTING" <=> gap > 10
            /\ verdict.status = "UNDERFITTING" <=> (gap <= 10 /\ test < 50)
            /\ verdict.status = "GOOD_FIT" <=> (gap <= 10 /\ test >= 50)
            /\ gap > 15 => verdict.severity = "HIGH"
            /\ (10 < gap /\ gap <= 15) => verdict.severity = "MEDIUM"
            /\ (gap <= 10 /\ test < 30) => verdict.severity = "HIGH"
            /\ (gap <= 10 /\ 30 <= test /\ test < 50) => verdict.severity = "MEDIUM"
            /\ (gap <= 10 /\ test >= 50) => verdict.severity = "NONE"

\* a gap of exactly 0.10 over a test r2 of 0.50: neither branch is taken
C22_Witness ==
    /\ ReturnedFrom("detect_overfitting_regression")
    /\ call.train_metrics.r2 = 60
    /\ call.test_metrics.r2 = 50
    /\ result.value.status = "GOOD_FIT"
    /\ result.value.severity = "NONE"

\* C23: in every verdict of detect_overfitting, UNDERFITTING comes with a
\* test accuracy below 0.60 and has severity HIGH below 0.50 and MEDIUM from
\* 0.50 on; GOOD_FIT has severity NONE and only GOOD_FIT has it; and the
\* recommendation is the text of the table for the status, not the fallback.
C23_SeverityAndRecommendationFollowStatus ==
    FitCall =>
        LET verdict == result.value
            test == call.test_metrics.accuracy
        IN  /\ verdict.status \in {"OVERFITTING", "UNDERFITTING", "GOOD_FIT"}
            /\ verdict.status = "UNDERFITTING" =>
                    /\ test < 60
                    /\ test < 50 => verdict.severity = "HIGH"
                    /\ test >= 50 => verdict.severity = "MEDIUM"
            /\ verdict.status = "GOOD_FIT" <=> verdict.severity = "NONE"
            /\ verdict.recommendation # "No specific recommendation"
            /\ verdict.status = "OVERFITTING" => verdict.recommendation =
                    "Consider: 1) Regularization, 2) More training data, 3) Reduce model complexity, 4) Cross-validation"
            /\ verdict.status = "UNDERFITTING" => verdict.recommendation =
                    "Consider: 1) More complex model, 2) More features, 3) Feature engineering, 4) Remove regularization"
            /\ verdict.status = "GOOD_FIT" => verdict.recommendation =
                    "Model is performing well! Continue monitoring."

\* a test accuracy of exactly 0.50 under a small gap: UNDERFITTING, MEDIUM
C23_Witness ==
    /\ FitCall
    /\ call.test_metrics.accuracy = 50
    /\ result.value.status = "UNDERFITTING"
    /\ result.value.severity = "MEDIUM"

\* C24: detect_statistical_drift with the default alpha has one verdict for
\* every numeric column of the current dataset that the reference has too and
\* that is not the label; the verdict carries the p-value of the KS test of
\* the column's two samples, and drift_detected is true iff that p-value is
\* below 0.05; drifted_features is the number of verdicts with drift_detected.
C24_KsVerdictFromPValue ==
    (ReturnedFrom("detect_statistical_drift") /\ call.alpha = 50) =>
        LET current == call.current_data.columns
            verdicts == result.value.statistical_drift
            summary == result.value.summary
        IN  /\ DOMAIN verdicts =
                    {col \in DOMAIN current :
                        /\ col \in DOMAIN reference_data.some.columns
                        /\ col # "migraine_occurrence"
                        /\ current[col].dtype = "numeric"}
            /\ \A col \in DOMAIN verdicts :
                    /\ verdicts[col].p_value = current[col].p_value
                    /\ verdicts[col].drift_detected <=> current[col].p_value < 50
                    /\ verdicts[col].test = "Kolmogorov-Smirnov"
            /\ summary.drifted_features =
                    Cardinality({col \in DOMAIN verdicts : verdicts[col].drift_detected})
            /\ summary.total_features = Cardinality(DOMAIN verdicts)

\* one column with p exactly 0.05 (no drift) and one with p = 0.049 (drift)
C24_Witness ==
    /\ ReturnedFrom("detect_statistical_drift")
    /\ DOMAIN result.value.statistical_drift = Features
    /\ result.value.statistical_drift["age"].p_value = 50
    /\ ~result.value.statistical_drift["age"].drift_detected
    /\ result.value.statistical_drift["stress_level"].p_value = 49
    /\ result.value.statistical_drift["stress_level"].drift_detected
    /\ result.value.summary.drifted_features = 1

\* C25: in every result of predict that is not None, each of the two models
\* has occurrence 0 or 1; its severity is 0 if occurrence is 0, and if
\* occurrence is 1 it is the regressor's output brought into [1, 10]; so the
\* severity lies in [0, 10].  (Severities in tenths.)
C25_PredictionRanges ==
    (ReturnedFrom("predict") /\ result.value # None) =>
        \A key \in {"model1", "model2"} :
            LET prediction == result.value[key]
                output == call.outputs[key]
            IN  /\ prediction.occurrence \in {0, 1}
                /\ prediction.occurrence = 0 => prediction.severity = 0
                /\ prediction.occurrence = 1 =>
                        /\ 10 <= prediction.severity /\ prediction.severity <= 100
                        /\ (10 <= output.severity /\ output.severity <= 100)
                                => prediction.severity = output.severity
                        /\ output.severity < 10 => prediction.severity = 10
                        /\ output.severity > 100 => prediction.severity = 100
                /\ 0 <= prediction.severity /\ prediction.severity <= 100

\* a regressor output below 1 and one above 10, both for a predicted migraine
C25_Witness ==
    /\ ReturnedFrom("predict")
    /\ result.value # None
    /\ call.outputs.model1 = [occurrence |-> 1, severity |-> -5]
    /\ call.outputs.model2 = [occurrence |-> 1, severity |-> 123]
    /\ result.value.model1.severity = 10
    /\ result.value.model2.severity = 100

\* C29: load_models is all or nothing: after it returned True there are two
\* classification models, two regression models and the feature names; after
\* it returned False the predictor holds no model; and while a model file is
\* missing, predict returns None.
C29_LoadAllOrNothing ==
    /\ ReturnedFrom("load_models") =>
            IF result.value
            THEN /\ Len(predictor.top_classification_models) = 2
                 /\ Len(predictor.top_regression_models) = 2
                 /\ predictor.feature_names # None
            ELSE /\ predictor.top_classification_models = <<>>
                 /\ predictor.top_regression_models = <<>>
    /\ (call.op = "predict" /\ Opened(model_files) < Len(LoadOrder)) =>
            result = Returned(None)

\* C30: in every result of check_health the overall status is 'warning'
\* exactly when some check has status 'warning' (high average latency, or no
\* prediction recorded), and 'healthy' only when every check is 'ok'.
C30_HealthStatusAgreesWithChecks ==
    ReturnedFrom("check_health") =>
        LET health == result.value
            warns == \E name \in DOMAIN health.checks :
                        health.checks[name].status = "warning"
        IN  /\ warns => health.status = "warning"
            /\ health.status = "healthy" =>
                    \A name \in DOMAIN health.checks :
                        health.checks[name].status = "ok"

\* C26: in the summary of detect_feature_drift, drift_percentage is the number
\* of analysed features (numeric columns of the current dataset that the
\* reference has too, the label excepted) with status SIGNIFICANT_DRIFT,
\* divided by the number of analysed features, times 100; it is
\* drifted_features / total_features * 100, lies in [0, 100], and is 0 when
\* no feature was analysed.
C26_DriftPercentage ==
    ReturnedFrom("detect_feature_drift") =>
        LET verdicts == result.value.feature_drift
            summary == result.value.summary
            current == call.current_data.columns
            analysed == {col \in DOMAIN current :
                            /\ col \in DOMAIN reference_data.some.columns
                            /\ col # "migraine_occurrence"
                            /\ current[col].dtype = "numeric"}
            significant == {col \in analysed :
                                verdicts[col].status = "SIGNIFICANT_DRIFT"}
            percentage == summary.drift_percentage
        IN  /\ percentage.den > 0
            /\ 0 <= percentage.num
            /\ percentage.num <= 100 * percentage.den
            /\ analysed = {} => percentage.num = 0
            /\ analysed # {} =>
                    /\ FracEQ(percentage,
                              Frac(Cardinality(significant) * 100, Cardinality(analysed)))
                    /\ FracEQ(percentage,
                              Frac(summary.drifted_features * 100, summary.total_features))

\* two features analysed beside a label column, one of them drifted: 50
C26_Witness ==
    /\ ReturnedFrom("detect_feature_drift")
    /\ "migraine_occurrence" \in DOMAIN call.current_data.columns
    /\ result.value.summary.total_features = 2
    /\ result.value.summary.drifted_features = 1
    /\ FracEQ(result.value.summary.drift_percentage, Frac(50, 1))

KsDriftEverywhere(report) ==
    /\ DOMAIN report.statistical_drift.statistical_drift # {}
    /\ \A col \in DOMAIN report.statistical_drift.statistical_drift :
            report.statistical_drift.statistical_drift[col].drift_detected

\* C27: in every report comprehensive_drift_check assembled, if no feature
\* has status SIGNIFICANT_DRIFT and the target drift is not significant, then
\* drift_detected and action_required are false, whatever the performance
\* status and the KS verdicts; with a performance status
\* SIGNIFICANT_DEGRADATION the recommendation is then the message
\* "MODEL RETRAINING REQUIRED: SIGNIFICANT_DEGRADATION" alone.
C27_ActionIgnoresPerformanceAndKs ==
    Assembled =>
        LET report == AssembledReport
            verdicts == report.feature_drift.feature_drift
            quiet == /\ \A col \in DOMAIN verdicts :
                            verdicts[col].status # "SIGNIFICANT_DRIFT"
                     /\ ~TargetSignificant(report)
        IN  quiet =>
                /\ ~report.overall_assessment.drift_detected
                /\ ~report.overall_assessment.action_required
                /\ DegradationOf(report) = "SIGNIFICANT_DEGRADATION" =>
                        report.overall_assessment.recommendation =
                            <<"MODEL RETRAINING REQUIRED: SIGNIFICANT_DEGRADATION">>

\* a significant degradation and KS drift on every feature, no PSI or target
\* drift: no action required, retraining recommended
C27_Witness ==
    /\ Assembled
    /\ DegradationOf(AssembledReport) = "SIGNIFICANT_DEGRADATION"
    /\ KsDriftEverywhere(AssembledReport)
    /\ AssembledReport.feature_drift.summary.overall_status = "NO_DRIFT"
    /\ ~TargetSignificant(AssembledReport)
    /\ ~AssembledReport.overall_assessment.action_required
    /\ AssembledReport.overall_assessment.recommendation =
            <<"MODEL RETRAINING REQUIRED: SIGNIFICANT_DEGRADATION">>

\* the JSON text of a whole report
TextOf(report) ==
    [i \in 1..Len(ReportKeys(report)) |->
        <<ReportKeys(report)[i],
          JsonValue(ReportKeys(report)[i], report[ReportKeys(report)[i]])>>]

====
